---- MODULE Spec2Model ----
(***************************************************************************)
(* A model of the pinentry client of src/pynentry.py (and of its earlier   *)
(* revision src/pinentry.py): the Pinentry session object, the child       *)
(* process it owns, the line protocol it speaks over the child's pipes,    *)
(* and the regular expressions it classifies response lines with.          *)
(*                                                                         *)
(* A line of text is a sequence of one-character strings, including its    *)
(* final newline when the stream delivered one.                            *)
(***************************************************************************)
EXTENDS Integers, Sequences, FiniteSets, TLC

VARIABLES
    impl,      \* which revision of the client runs
    spawn,     \* the arguments of the constructor and the vector it built
    phase,     \* the Pinentry object: "unopened", "open", "failed", "deleted"
    proc,      \* the child process: "none", "running", "exited", "terminated"
    stdout,    \* lines the agent has written and the client has not read
    eof,       \* the agent has closed its output stream
    props,     \* self._pinentry_properties
    acked,     \* per option, the value of the last assignment the agent
               \* answered with an OK line (None after an assignment of None)
    nassign,   \* option assignments made so far
    call,      \* the last operation called, with its arguments
    sent,      \* the lines that operation wrote to the agent's input
    replies,   \* what the agent wrote in answer to each of those lines
    response,  \* the list its _read_response returned
    result     \* how it ended: a return value or an exception

vars == <<impl, spawn, phase, proc, stdout, eof, props, acked, nassign, call,
          sent, replies, response, result>>

(***************************************************************************)
(* Bounds of the model.                                                    *)
(***************************************************************************)
\* option assignments made on one session
MaxAssign == 2
\* Data/Status lines an agent answer carries before its last line
MaxPre == 2
\* the largest timeout a caller passes
MaxTimeout == 11

(***************************************************************************)
(* Characters and lines.                                                   *)
(***************************************************************************)
NL == "\n"
Whitespace == {" ", NL}
Digits == {"0", "1", "2", "3", "4", "5", "6", "7", "8", "9"}

\* Python's None, as an option value, a return value or a failed match:
\* a one-element sequence whose element is not a character.
None == <<"None">>

StartsWith(line, prefix) ==
    /\ Len(line) >= Len(prefix)
    /\ SubSeq(line, 1, Len(prefix)) = prefix

\* the number of consecutive characters of S in line, from index i on
\* (a greedy S+ or S* of a regular expression)
RECURSIVE Run(_, _, _)
Run(line, i, S) ==
    IF i <= Len(line) /\ line[i] \in S THEN 1 + Run(line, i + 1, S) ELSE 0

\* what a greedy (.*) captures from index i on: '.' matches no newline
RECURSIVE DotStar(_, _)
DotStar(line, i) ==
    IF i <= Len(line) /\ line[i] # NL
    THEN <<line[i]>> \o DotStar(line, i + 1)
    ELSE <<>>

Last(s) == s[Len(s)]

(***************************************************************************)
(* The two revisions of the client, and the option table.                  *)
(***************************************************************************)
Impls == {"pynentry", "pinentry"}

OptionNames == {"description", "prompt", "title", "ok_button_text",
                "cancel_button_text", "error_text", "ttyname", "ttytype",
                "lc_ctype"}

_property_commands ==
    [n \in OptionNames |->
        CASE n = "description"        -> <<"S","E","T","D","E","S","C">>
          [] n = "prompt"             -> <<"S","E","T","P","R","O","M","P","T">>
          [] n = "title"              -> <<"S","E","T","T","I","T","L","E">>
          [] n = "ok_button_text"     -> <<"S","E","T","O","K">>
          [] n = "cancel_button_text" -> <<"S","E","T","C","A","N","C","E","L">>
          [] n = "error_text"         -> <<"S","E","T","E","R","R","O","R">>
          [] n = "ttyname"            -> <<"O","P","T","I","O","N"," ","t","t","y","n","a","m","e">>
          [] n = "ttytype"            -> <<"O","P","T","I","O","N"," ","t","t","y","t","y","p","e">>
          [] n = "lc_ctype"           -> <<"O","P","T","I","O","N"," ","l","c","-","c","t","y","p","e">>]

(***************************************************************************)
(* Lines an agent may write.                                               *)
(***************************************************************************)
OK_ == <<"O","K">>
ERR_ == <<"E","R","R">>
D_ == <<"D"," ">>
canceled == <<"c","a","n","c","e","l","e","d">>

LineOK == <<"O","K",NL>>
LineOKReady == <<"O","K"," ","r","e","a","d","y",NL>>
LineErrCanceled == <<"E","R","R"," ","5"," ">> \o canceled \o <<NL>>
LineErrCanceledLong == <<"E","R","R"," ","8","3"," ">> \o canceled \o <<NL>>
LineErrFailure == <<"E","R","R"," ","1"," ","n","o"," ","t","t","y",NL>>
LineErrCodeOnly == <<"E","R","R"," ","7",NL>>
LineErrBare == <<"E","R","R",NL>>
\* the agent died in the middle of a line: no newline was delivered
LineErrCut == <<"E","R","R"," ","9">>
LineDataPw == <<"D"," ","p","w",NL>>
LineDataX == <<"D"," ","x",NL>>
LineDataCut == <<"D"," ","p","w">>
LineStatus == <<"S"," ","k",NL>>

Terminators == {LineOK, LineOKReady, LineErrCanceled, LineErrCanceledLong, LineErrFailure,
                LineErrCodeOnly, LineErrBare}
PreLines == {LineDataPw, LineDataX, LineStatus}
CutLines == {LineErrCut, LineDataCut}

\* What the agent does about one command line: it writes lines, and then
\* either goes on running or closes its output stream and exits.
Answer(lines, close) == [lines |-> lines, close |-> close]

PreSeqs(k) == UNION {[1..n -> PreLines] : n \in 0..k}

\* every answer with up to MaxPre lines before its last one
QueryAnswers ==
    {Answer(pre \o <<t>>, FALSE) : pre \in PreSeqs(MaxPre), t \in Terminators}
    \cup {Answer(pre, TRUE) : pre \in PreSeqs(MaxPre)}
    \cup {Answer(pre \o <<c>>, TRUE) : pre \in PreSeqs(MaxPre), c \in CutLines}

\* a few answers without a Data line: acknowledged, rejected with and
\* without a code, and cut short before any terminator
SessionAnswers ==
    {Answer(<<LineOK>>, FALSE), Answer(<<LineStatus, LineOK>>, FALSE),
     Answer(<<LineErrFailure>>, FALSE), Answer(<<LineErrBare>>, FALSE),
     Answer(<<>>, TRUE), Answer(<<LineStatus>>, TRUE)}

(***************************************************************************)
(* Pinentry._read_response and Pinentry._parse_error.                      *)
(***************************************************************************)
\* re.match('^(OK|ERR).*', line)
IsTerminator(line) == StartsWith(line, OK_) \/ StartsWith(line, ERR_)

\* the index of the first terminator line of stream from i on, 0 if none
RECURSIVE FirstTerminator(_, _)
FirstTerminator(stream, i) ==
    IF i > Len(stream) THEN 0
    ELSE IF IsTerminator(stream[i]) THEN i
    ELSE FirstTerminator(stream, i + 1)

\* The loop over the stream ends at the first terminator line, or at the
\* end of a closed stream; the list it built is returned either way.
_read_response(stream) ==
    LET t == FirstTerminator(stream, 1)
    IN  IF t = 0 THEN stream ELSE SubSeq(stream, 1, t)

Unread(stream) ==
    LET t == FirstTerminator(stream, 1)
    IN  IF t = 0 THEN <<>> ELSE SubSeq(stream, t + 1, Len(stream))

NoMatch == [matched |-> FALSE, code |-> <<>>, message |-> <<>>]

\* re.match(r'ERR\s+(\d+)\s+(.*)', line): None, or the two groups
_parse_error(line) ==
    IF ~StartsWith(line, ERR_) THEN NoMatch
    ELSE LET w1 == Run(line, 4, Whitespace)
             d  == Run(line, 4 + w1, Digits)
             w2 == Run(line, 4 + w1 + d, Whitespace)
         IN  IF w1 = 0 \/ d = 0 \/ w2 = 0 THEN NoMatch
             ELSE [matched |-> TRUE,
                   code    |-> SubSeq(line, 4 + w1, 3 + w1 + d),
                   message |-> DotStar(line, 4 + w1 + d + w2)]

(***************************************************************************)
(* How an operation ends.                                                  *)
(***************************************************************************)
True == <<"True">>
False == <<"False">>

Return(v) ==
    [outcome |-> "return", exc |-> "none", code |-> None, message |-> None,
     ret |-> v]
Raise(e, c, m) ==
    [outcome |-> "raise", exc |-> e, code |-> c, message |-> m, ret |-> None]
PinentryError(c, m) == Raise("PinentryError", c, m)
\* response[-1] of an empty list
IndexError == Raise("IndexError", None, None)
\* error_code, message = None
TypeError == Raise("TypeError", None, None)
\* a write to the pipe of a child that is gone
BrokenPipeError == Raise("BrokenPipeError", None, None)

\* the tail of Pinentry.__init__: the greeting
init_greeting(resp) ==
    IF resp = <<>> THEN IndexError
    ELSE LET last_line == Last(resp)
         IN  IF StartsWith(last_line, OK_) THEN Return(None)
             ELSE IF StartsWith(last_line, ERR_)
             THEN LET e == _parse_error(last_line)
                  IN  IF e.matched THEN PinentryError(e.code, e.message)
                      ELSE TypeError
             ELSE Return(None)

\* Pinentry._set_pinentry_property, once the command is answered
_set_pinentry_property(resp) ==
    IF resp = <<>> THEN IndexError
    ELSE LET last_line == Last(resp)
         IN  IF StartsWith(last_line, OK_) THEN Return(None)
             ELSE IF StartsWith(last_line, ERR_)
             THEN LET e == _parse_error(last_line)
                  IN  IF e.matched THEN PinentryError(e.code, e.message)
                      ELSE TypeError
             ELSE Return(None)

\* ask_for_pin with the payload cut as line[2:], newline included
RECURSIVE ask_for_pin_slice(_)
ask_for_pin_slice(resp) ==
    IF resp = <<>> THEN Return(None)
    ELSE LET line == Head(resp)
         IN  IF StartsWith(line, D_) THEN Return(SubSeq(line, 3, Len(line)))
             ELSE LET error == _parse_error(line)
                  IN  IF error.matched
                      THEN PinentryError(error.code, error.message)
                      ELSE ask_for_pin_slice(Tail(resp))

\* ask_for_pin with an empty string for a response without a Data line
RECURSIVE ask_for_pin_empty(_)
ask_for_pin_empty(resp) ==
    IF resp = <<>> THEN Return(<<>>)
    ELSE LET line == Head(resp)
         IN  IF StartsWith(line, D_) THEN Return(DotStar(line, 3))
             ELSE LET error == _parse_error(line)
                  IN  IF error.matched
                      THEN PinentryError(error.code, error.message)
                      ELSE ask_for_pin_empty(Tail(resp))

\* Pinentry.ask_for_pin: the loop over the lines of the response
RECURSIVE ask_for_pin(_)
ask_for_pin(resp) ==
    IF resp = <<>> THEN Return(None)
    ELSE LET line == Head(resp)
         IN  IF StartsWith(line, D_) THEN Return(DotStar(line, 3))
             ELSE LET error == _parse_error(line)
                  IN  IF error.matched
                      THEN PinentryError(error.code, error.message)
                      ELSE ask_for_pin(Tail(resp))

\* ask_for_confirmation without the test for 'canceled'
ask_for_confirmation_strict(im, resp) ==
    IF resp = <<>> THEN IndexError
    ELSE LET last_line == Last(resp)
         IN  IF StartsWith(last_line, OK_) THEN Return(True)
             ELSE IF StartsWith(last_line, ERR_)
             THEN LET e == _parse_error(last_line)
                  IN  IF ~e.matched THEN TypeError
                      ELSE IF im = "pynentry"
                      THEN PinentryError(e.code, e.message)
                      ELSE Return(None)
             ELSE Return(None)

\* Pinentry.ask_for_confirmation, of either revision
ask_for_confirmation(im, resp) ==
    IF resp = <<>> THEN IndexError
    ELSE LET last_line == Last(resp)
         IN  IF StartsWith(last_line, OK_) THEN Return(True)
             ELSE IF StartsWith(last_line, ERR_)
             THEN LET e == _parse_error(last_line)
                  IN  IF ~e.matched THEN TypeError
                      ELSE IF e.message = canceled THEN Return(False)
                      ELSE IF im = "pynentry"
                      THEN PinentryError(e.code, e.message)
                      ELSE Return(None)
             ELSE Return(None)

\* Pinentry.show_message
show_message(resp) ==
    IF resp = <<>> THEN IndexError
    ELSE LET last_line == Last(resp)
         IN  IF StartsWith(last_line, OK_) THEN Return(None)
             ELSE IF StartsWith(last_line, ERR_)
             THEN LET e == _parse_error(last_line)
                  IN  IF e.matched THEN PinentryError(e.code, e.message)
                      ELSE TypeError
             ELSE Return(None)

(***************************************************************************)
(* The constructor's arguments and the argument vector of the child.       *)
(***************************************************************************)
\* Strings that are never taken apart (paths, flags, displays) are written
\* whole; NoString is None among them.
NoString == "<None>"

DigitChars == <<"0", "1", "2", "3", "4", "5", "6", "7", "8", "9">>

\* str(timeout) of an integer
RECURSIVE str(_)
str(n) ==
    IF n < 0 THEN "-" \o str(0 - n)
    ELSE IF n < 10 THEN DigitChars[n + 1]
    ELSE str(n \div 10) \o DigitChars[(n % 10) + 1]

\* the parameters of Pinentry.__init__ and os.environ.get('DISPLAY')
CtorArgs(binary_path, global_grab, timeout, display, environ) ==
    [binary_path |-> binary_path, global_grab |-> global_grab,
     timeout |-> timeout, display |-> display, environ |-> environ]

\* Pinentry(): every default, and no DISPLAY in the environment
DefaultArgs == CtorArgs("pinentry", TRUE, 0, NoString, NoString)

AllCtorArgs ==
    {CtorArgs(b, g, t, d, e) :
        b \in {"pinentry", "/usr/bin/pinentry-tty"}, g \in BOOLEAN,
        t \in (0 - 1)..MaxTimeout, d \in {NoString, "", ":0"},
        e \in {NoString, ":1"}}

\* a vector that names the timeout only when there is one
init_argv_falsy(im, args) ==
    LET display == IF args.display = NoString THEN args.environ
                   ELSE args.display
    IN  <<args.binary_path>>
        \o (IF ~args.global_grab THEN <<"--no-global-grab">> ELSE <<>>)
        \o (IF display # NoString THEN <<"--display", display>> ELSE <<>>)
        \o (IF im = "pynentry" /\ args.timeout # 0
            THEN <<"--timeout", str(args.timeout)>> ELSE <<>>)

\* the list proc of Pinentry.__init__; src/pinentry.py takes no timeout
init_argv(im, args) ==
    LET display == IF args.display = NoString THEN args.environ
                   ELSE args.display
    IN  <<args.binary_path>>
        \o (IF ~args.global_grab THEN <<"--no-global-grab">> ELSE <<>>)
        \o (IF display # NoString THEN <<"--display", display>> ELSE <<>>)
        \o (IF im = "pynentry" THEN <<"--timeout", str(args.timeout)>>
            ELSE <<>>)

NoSpawn == [args |-> DefaultArgs, argv |-> <<>>]

(***************************************************************************)
(* The session and its child process.                                      *)
(***************************************************************************)
\* the values a caller assigns to an option, besides None
Values == {<<"a">>, <<"b">>}

Call(op, name, value) == [op |-> op, name |-> name, value |-> value]

Unset == [n \in OptionNames |-> None]

\* a setter that starts a new dictionary for the value
setter_fresh(ps, property_name, value) ==
    [n \in OptionNames |-> IF n = property_name THEN value ELSE None]

\* a setter that records nothing for None
setter_keep(ps, property_name, value) ==
    IF value = None THEN ps ELSE [ps EXCEPT ![property_name] = value]

\* the setter of an option's property: the dictionary after its first line
setter(ps, property_name, value) == [ps EXCEPT ![property_name] = value]

\* Popen.terminate: a signal to a child that has not been reaped
SendSignal(p) == IF p = "running" THEN "terminated" ELSE p

\* a terminate that fails on a child that no longer runs
terminate_once(p) ==
    IF p = "running" THEN [proc |-> "terminated", result |-> Return(None)]
    ELSE [proc |-> p, result |-> Raise("ProcessLookupError", None, None)]

\* Pinentry.terminate: the child afterwards, and how the call ends
terminate(p) == [proc |-> SendSignal(p), result |-> Return(None)]

\* Whether a write to the child's input can fail: never while it runs,
\* always once it has exited, either way after a signal was sent to it.
WriteFails ==
    CASE proc = "running" -> {FALSE}
      [] proc = "exited"  -> {TRUE}
      [] OTHER            -> {TRUE, FALSE}

\* A child that has closed its output writes nothing more.
Answers(pool) == IF eof THEN {Answer(<<>>, TRUE)} ELSE pool

\* the lines of a text that ends with a newline
RECURSIVE SplitLines(_)
SplitLines(text) ==
    IF text = <<>> THEN <<>>
    ELSE LET k == 1 + Run(text, 1, {c \in {text[i] : i \in 1..Len(text)} : c # NL})
         IN  <<SubSeq(text, 1, k)>> \o SplitLines(SubSeq(text, k + 1, Len(text)))

\* Pinentry._writeline_to_pinentry_stdin: what the agent finds on its input
Written(text) == SplitLines(text \o <<NL>>)

\* The agent answers the lines of its input one by one, until it exits:
\* one answer of the pool for each line written.
AnswerSeqs(pool, text) == [1..Len(Written(text)) -> Answers(pool)]

\* the answers given up to the first one that closes the stream
RECURSIVE Given(_)
Given(as) ==
    IF as = <<>> THEN <<>>
    ELSE IF Head(as).close THEN <<Head(as).lines>>
    ELSE <<Head(as).lines>> \o Given(Tail(as))

RECURSIVE Flat(_)
Flat(ss) == IF ss = <<>> THEN <<>> ELSE Head(ss) \o Flat(Tail(ss))

\* Pinentry._input: the text written and flushed, one response read
_input(text, as, broken) ==
    IF broken
    THEN /\ sent' = <<>>
         /\ replies' = <<>>
         /\ response' = <<>>
         /\ UNCHANGED <<stdout, eof, proc>>
    ELSE LET stream == stdout \o Flat(Given(as))
             close == \E i \in 1..Len(as) : as[i].close
         IN  /\ sent' = Written(text)
             /\ replies' = Given(as)
             /\ response' = _read_response(stream)
             /\ stdout' = Unread(stream)
             /\ eof' = (eof \/ close)
             /\ proc' = IF close /\ proc = "running" THEN "exited" ELSE proc

InitOf(revisions) ==
    /\ impl \in revisions
    /\ spawn = NoSpawn
    /\ phase = "unopened"
    /\ proc = "none"
    /\ stdout = <<>>
    /\ eof = FALSE
    /\ props = Unset
    /\ acked = Unset
    /\ nassign = 0
    /\ call = Call("none", "-", None)
    /\ sent = <<>>
    /\ replies = <<>>
    /\ response = <<>>
    /\ result = Return(None)

Init == InitOf({"pynentry"})

\* Pinentry.__init__: the argument vector is built, the child is spawned
\* and its greeting is read
Open(pool, ctor_args) ==
    /\ phase = "unopened"
    /\ \E args \in ctor_args :
        spawn' = [args |-> args, argv |-> init_argv(impl, args)]
    /\ \E a \in pool :
        /\ response' = _read_response(a.lines)
        /\ replies' = <<a.lines>>
        /\ stdout' = Unread(a.lines)
        /\ eof' = a.close
        /\ proc' = IF a.close THEN "exited" ELSE "running"
        /\ result' = init_greeting(_read_response(a.lines))
        /\ phase' = IF init_greeting(_read_response(a.lines)).outcome = "return"
                     THEN "open" ELSE "failed"
    /\ props' = Unset
    /\ acked' = Unset
    /\ call' = Call("open", "-", None)
    /\ sent' = <<>>
    /\ UNCHANGED <<impl, nassign>>

\* an assignment to one of the nine properties
SetOption(pool, names, values) ==
    /\ phase = "open"
    /\ nassign < MaxAssign
    /\ \E n \in names, v \in values \cup {None} :
        /\ call' = Call("set", n, v)
        /\ props' = setter(props, n, v)
        /\ IF v = None
           THEN /\ sent' = <<>>
                /\ replies' = <<>>
                /\ response' = <<>>
                /\ result' = Return(None)
                /\ acked' = [acked EXCEPT ![n] = None]
                /\ UNCHANGED <<stdout, eof, proc>>
           ELSE \E as \in AnswerSeqs(pool, _property_commands[n] \o <<" ">> \o v),
                   broken \in WriteFails :
                /\ _input(_property_commands[n] \o <<" ">> \o v, as, broken)
                /\ result' = IF broken THEN BrokenPipeError
                              ELSE _set_pinentry_property(response')
                /\ acked' = IF /\ ~broken
                               /\ response' # <<>>
                               /\ StartsWith(Last(response'), OK_)
                            THEN [acked EXCEPT ![n] = v]
                            ELSE acked
    /\ nassign' = nassign + 1
    /\ UNCHANGED <<impl, spawn, phase>>

GETPIN == <<"G","E","T","P","I","N">>
CONFIRM == <<"C","O","N","F","I","R","M">>
MESSAGE == <<"M","E","S","S","A","G","E">>

AskForPin(pool) ==
    /\ phase = "open"
    /\ call' = Call("ask_for_pin", "-", None)
    /\ \E as \in AnswerSeqs(pool, GETPIN), broken \in WriteFails :
        /\ _input(GETPIN, as, broken)
        /\ result' = IF broken THEN BrokenPipeError ELSE ask_for_pin(response')
    /\ UNCHANGED <<impl, spawn, phase, props, acked, nassign>>

AskForConfirmation(pool) ==
    /\ phase = "open"
    /\ call' = Call("ask_for_confirmation", "-", None)
    /\ \E as \in AnswerSeqs(pool, CONFIRM), broken \in WriteFails :
        /\ _input(CONFIRM, as, broken)
        /\ result' = IF broken THEN BrokenPipeError
                      ELSE ask_for_confirmation(impl, response')
    /\ UNCHANGED <<impl, spawn, phase, props, acked, nassign>>

ShowMessage(pool) ==
    /\ phase = "open"
    /\ call' = Call("show_message", "-", None)
    /\ \E as \in AnswerSeqs(pool, MESSAGE), broken \in WriteFails :
        /\ _input(MESSAGE, as, broken)
        /\ result' = IF broken THEN BrokenPipeError ELSE show_message(response')
    /\ UNCHANGED <<impl, spawn, phase, props, acked, nassign>>

\* a terminate that also forgets the options
Terminate_forgetful ==
    /\ phase = "open"
    /\ impl = "pynentry"
    /\ call' = Call("terminate", "-", None)
    /\ proc' = terminate(proc).proc
    /\ props' = Unset
    /\ sent' = <<>>
    /\ replies' = <<>>
    /\ response' = <<>>
    /\ result' = terminate(proc).result
    /\ UNCHANGED <<impl, spawn, phase, stdout, eof, acked, nassign>>

\* Pinentry.terminate, which only src/pynentry.py has
Terminate ==
    /\ phase = "open"
    /\ impl = "pynentry"
    /\ call' = Call("terminate", "-", None)
    /\ proc' = terminate(proc).proc
    /\ sent' = <<>>
    /\ replies' = <<>>
    /\ response' = <<>>
    /\ result' = terminate(proc).result
    /\ UNCHANGED <<impl, spawn, phase, stdout, eof, props, acked, nassign>>

\* Pinentry.__del__: the interpreter finalizes an object nothing refers
\* to any more, at a time of its choosing, also one whose __init__ raised.
\* It calls terminate; what that raises is ignored. The object and its
\* dictionary of properties are gone afterwards.
Del ==
    /\ phase \in {"open", "failed"}
    /\ phase' = "deleted"
    /\ proc' = terminate(proc).proc
    /\ props' = Unset
    /\ acked' = Unset
    /\ call' = Call("__del__", "-", None)
    /\ sent' = <<>>
    /\ replies' = <<>>
    /\ response' = <<>>
    /\ result' = Return(None)
    /\ UNCHANGED <<impl, spawn, stdout, eof, nassign>>

Next ==
    \/ Open(SessionAnswers, {DefaultArgs})
    \/ SetOption(SessionAnswers, OptionNames, Values)
    \/ AskForPin(SessionAnswers)
    \/ AskForConfirmation(SessionAnswers)
    \/ ShowMessage(SessionAnswers)
    \/ Terminate
    \/ Del

Spec == Init /\ [][Next]_vars

\* the queries against every answer of up to MaxPre + 1 lines
NextQuery ==
    \/ Open(SessionAnswers, {DefaultArgs})
    \/ AskForPin(QueryAnswers)
    \/ AskForConfirmation(QueryAnswers)
    \/ ShowMessage(QueryAnswers)

InitQuery == InitOf(Impls)

SpecQuery == InitQuery /\ [][NextQuery]_vars

\* a value of two lines
TwoLines == <<"a", NL, "b">>

\* complete answers only: every response has its terminator
CompleteAnswers ==
    {Answer(<<LineOK>>, FALSE), Answer(<<LineDataPw, LineOK>>, FALSE),
     Answer(<<LineErrFailure>>, FALSE)}

\* two of the options, assigned values of one and of two lines
NextLines ==
    \/ Open(CompleteAnswers, {DefaultArgs})
    \/ SetOption(CompleteAnswers, {"description", "ttyname"},
                 {<<"a">>, TwoLines})
    \/ AskForPin(CompleteAnswers)
    \/ AskForConfirmation(CompleteAnswers)
    \/ ShowMessage(CompleteAnswers)

SpecLines == Init /\ [][NextLines]_vars

\* the constructor on every combination of its arguments
NextArgs == Open(SessionAnswers, AllCtorArgs)

SpecArgs == Init /\ [][NextArgs]_vars

(***************************************************************************)
(* The protocol's side of the claims: how an agent puts a code and a       *)
(* description on an ERR line and a payload on a Data line, and what the   *)
(* last operation read.                                                    *)
(***************************************************************************)
ErrCodes == {<<"1">>, <<"5">>, <<"8","3">>}
ErrDescriptions == {canceled, <<"n","o"," ","t","t","y">>}
ErrLine(c, m) == ERR_ \o <<" ">> \o c \o <<" ">> \o m \o <<NL>>

\* the last operation wrote a command and read the answer to it
Exchanged == sent # <<>>
\* the last operation read a response, the greeting included
Received == call.op = "open" \/ Exchanged
EndsOK == response # <<>> /\ StartsWith(Last(response), OK_)
EndsERR == response # <<>> /\ StartsWith(Last(response), ERR_)
DataAt(i) == i \in 1..Len(response) /\ StartsWith(response[i], D_)
HasData == \E i \in 1..Len(response) : DataAt(i)

\* res is an exception, and the PinentryError with the code and the
\* description of line when line has them
Carries(res, line) ==
    /\ res.outcome = "raise"
    /\ \A c \in ErrCodes, m \in ErrDescriptions :
          line = ErrLine(c, m) => res = PinentryError(c, m)

\* C1: when the agent answers an option's command with an ERR line, the
\* setter raises PinentryError with that line's code and description and
\* the option's cached value is the one it had before the call.
C1_RejectedValueNotRecorded ==
    [][\A c \in ErrCodes, m \in ErrDescriptions :
        (/\ nassign' = nassign + 1
         /\ call'.value # None
         /\ sent' # <<>>
         /\ response' # <<>>
         /\ Last(response') = ErrLine(c, m))
        => /\ result' = PinentryError(c, m)
           /\ props' = props]_vars

\* C2: in every state of an open session each option maps to the value of
\* the last assignment the agent acknowledged with OK, or to None.
C2_CacheIsLastAcknowledged == phase = "open" => props = acked

\* C3: in both revisions, an ERR answer to CONFIRM whose description is
\* not 'canceled' makes ask_for_confirmation raise PinentryError with the
\* line's code and description; it returns no value.
C3_ConfirmationFailureRaises ==
    (call.op = "ask_for_confirmation" /\ Exchanged /\ response # <<>>)
    => \A c \in ErrCodes, m \in ErrDescriptions \ {canceled} :
          Last(response) = ErrLine(c, m) => result = PinentryError(c, m)

\* C4: ask_for_confirmation sends CONFIRM, returns True when the response
\* ends with an OK line, and returns False without raising when it ends
\* with an ERR line whose description is exactly 'canceled', whatever
\* the code.
C4_ConfirmationAnswer ==
    (call.op = "ask_for_confirmation" /\ Exchanged)
    => /\ sent = <<CONFIRM \o <<NL>>>>
       /\ EndsOK => result = Return(True)
       /\ \A c \in ErrCodes :
             (response # <<>> /\ Last(response) = ErrLine(c, canceled))
             => result = Return(False)

C4_Witness ==
    /\ call.op = "ask_for_confirmation"
    /\ response = <<LineStatus, LineErrCanceledLong>>
    /\ result = Return(False)

\* the first Data line of the response
FirstData == CHOOSE i \in 1..Len(response) :
                 DataAt(i) /\ \A j \in 1..(i - 1) : ~DataAt(j)

\* C5: ask_for_pin sends GETPIN and, when the response has a Data line,
\* returns the payload of the first one: the text after 'D ', without the
\* newline; later Data lines are ignored.
C5_PinIsFirstDataPayload ==
    (call.op = "ask_for_pin" /\ Exchanged)
    => /\ sent = <<GETPIN \o <<NL>>>>
       /\ HasData
          => /\ result.outcome = "return"
             /\ NL \notin {result.ret[k] : k \in 1..Len(result.ret)}
             /\ response[FirstData] \in {D_ \o result.ret \o <<NL>>,
                                         D_ \o result.ret}

C5_Witness ==
    /\ call.op = "ask_for_pin"
    /\ response = <<LineDataPw, LineDataX, LineErrFailure>>
    /\ result = Return(<<"p","w">>)

\* C6: when the response to GETPIN ends with an ERR line and has no Data
\* line, ask_for_pin of src/pynentry.py raises PinentryError with that
\* line's code and description.
C6_PinFailureRaises ==
    (/\ impl = "pynentry"
     /\ call.op = "ask_for_pin"
     /\ Exchanged
     /\ EndsERR
     /\ ~HasData)
    => Carries(result, Last(response))

\* C7: when the response to GETPIN ends with an OK line and has no Data
\* line, ask_for_pin returns None and does not raise.
C7_NoPinIsNone ==
    (call.op = "ask_for_pin" /\ Exchanged /\ EndsOK /\ ~HasData)
    => result = Return(None)

C7_Witness ==
    /\ call.op = "ask_for_pin"
    /\ response = <<LineStatus, LineStatus, LineOK>>
    /\ result = Return(None)

\* C8: an OK greeting completes the construction; an ERR greeting makes
\* it raise PinentryError with the greeting's code and description, and
\* no child process is left running after that failure.
C8_FailedOpenLeavesNoChild ==
    /\ (call.op = "open" /\ EndsOK)
       => result = Return(None) /\ phase = "open"
    /\ \A c \in ErrCodes, m \in ErrDescriptions :
         (call.op = "open" /\ response # <<>> /\ Last(response) = ErrLine(c, m))
         => result = PinentryError(c, m) /\ proc # "running"

\* C9: when the agent's output closes before a terminator line was read,
\* the operation ends with an error: no operation completes normally on
\* a response that is empty or lacks its terminator.
C9_TruncatedResponseIsAnError ==
    (Received /\ (response = <<>> \/ ~IsTerminator(Last(response))))
    => result.outcome = "raise"

\* C10: an assignment of a value that the agent acknowledges with OK
\* leaves the option's getter returning that value and the other eight
\* options as they were.
C10_AcknowledgedValueIsRecorded ==
    [][(/\ nassign' = nassign + 1
        /\ call'.value # None
        /\ sent' # <<>>
        /\ response' # <<>>
        /\ StartsWith(Last(response'), OK_))
       => /\ result' = Return(None)
          /\ props'[call'.name] = call'.value
          /\ \A n \in OptionNames \ {call'.name} : props'[n] = props[n]]_vars

C10_Witness ==
    /\ call = Call("set", "ttyname", <<"b">>)
    /\ EndsOK
    /\ props["ttyname"] = <<"b">>
    /\ props["description"] = <<"a">>

\* C11: an assignment of None writes nothing to the agent and reads
\* nothing from it, and leaves the option unset whatever it held before.
C11_NoneIsNotSent ==
    [][(nassign' = nassign + 1 /\ call'.value = None)
       => /\ sent' = <<>>
          /\ response' = <<>>
          /\ stdout' = stdout
          /\ eof' = eof
          /\ proc' = proc
          /\ result' = Return(None)
          /\ props'[call'.name] = None]_vars

C11_Witness ==
    /\ call = Call("set", "title", None)
    /\ nassign = 2
    /\ sent = <<>>
    /\ props = Unset
    /\ proc = "running"

\* C13: terminate does not raise, also when called again or after the
\* child has exited, and leaves the child as one call leaves it: not
\* running, and untouched if it was not running before.
C13_TerminateIsIdempotent ==
    [][call'.op = "terminate"
       => /\ result' = Return(None)
          /\ proc' # "running"
          /\ proc # "running" => proc' = proc
          /\ phase' = phase]_vars

C13_Witness ==
    /\ call.op = "terminate"
    /\ proc = "exited"
    /\ result = Return(None)

\* C20: the three queries and terminate leave the values of the nine
\* options as they were, whether they return or raise.
C20_QueriesKeepOptions ==
    [][call'.op \in {"ask_for_pin", "ask_for_confirmation", "show_message",
                      "terminate"}
       => props' = props]_vars

C20_Witness ==
    /\ call.op = "ask_for_pin"
    /\ result.outcome = "raise"
    /\ props["description"] = <<"a">>
    /\ props["ttytype"] = <<"b">>

Queries == {"ask_for_pin", "ask_for_confirmation", "show_message"}

\* C12: an assignment of a value, whatever the string, and a query write
\* exactly one command line and read exactly one response, and leave no
\* response to an earlier line unread.
C12_OneRoundTripPerCall ==
    (call.op \in Queries \cup {"set"} /\ Exchanged)
    => /\ Len(sent) = 1
       /\ Len(replies) = 1
       /\ stdout = <<>>

\* C17: with complete responses on the stream, what an operation reads is
\* the agent's response to the command that operation wrote.
C17_ResponsesStayPaired ==
    (call.op \in Queries \cup {"set"} /\ Exchanged /\ replies # <<>>)
    => response = replies[1]

\* C14: once terminate was called, an assignment of a value and a query
\* fail at once and neither write to the child nor read from it.
C14_NoTrafficAfterTerminate ==
    (/\ phase = "open"
     /\ proc = "terminated"
     /\ call.op \in Queries \cup {"set"}
     /\ call.op = "set" => call.value # None)
    => /\ result.outcome = "raise"
       /\ sent = <<>>
       /\ replies = <<>>

\* C15: show_message sends MESSAGE, returns None when the response ends
\* with an OK line, and raises when it ends with an ERR line: the
\* PinentryError with the line's code and description, 'canceled' too.
C15_MessageAnswer ==
    (call.op = "show_message" /\ Exchanged)
    => /\ sent = <<MESSAGE \o <<NL>>>>
       /\ EndsOK => result = Return(None)
       /\ EndsERR => /\ result.exc = "PinentryError"
                  /\ Carries(result, Last(response))

\* the decimal numerals from -1 on
Numerals == <<"-1", "0", "1", "2", "3", "4", "5", "6", "7", "8", "9", "10",
              "11", "12", "13">>

\* C16: the argument vector is the binary path, then --no-global-grab
\* exactly when global_grab is false, then --display and the display
\* exactly when one is given or found in the environment (the argument
\* first), then --timeout and the timeout.
C16_ArgumentVector ==
    spawn.argv # <<>>
    => LET a == spawn.args
           v == spawn.argv
           n == Len(v)
           shown == IF a.display # NoString THEN a.display ELSE a.environ
       IN  /\ n = 3 + (IF a.global_grab THEN 0 ELSE 1)
                     + (IF shown = NoString THEN 0 ELSE 2)
           /\ v[1] = a.binary_path
           /\ ~a.global_grab <=> v[2] = "--no-global-grab"
           /\ shown # NoString => v[n - 3] = "--display" /\ v[n - 2] = shown
           /\ shown = NoString => \A i \in 1..n : v[i] # "--display"
           /\ v[n - 1] = "--timeout"
           /\ v[n] = Numerals[a.timeout + 2]

C16_Witness ==
    /\ spawn.args = CtorArgs("/usr/bin/pinentry-tty", FALSE, 10, ":0", ":1")
    /\ spawn.argv = <<"/usr/bin/pinentry-tty", "--no-global-grab",
                      "--display", ":0", "--timeout", "10">>

\* the reply to CONFIRM that means the user declined
Declined ==
    /\ call.op = "ask_for_confirmation"
    /\ \E c \in ErrCodes : Last(response) = ErrLine(c, canceled)

\* C18: whatever follows ERR on the last line of the response to the
\* greeting, an assignment, MESSAGE or CONFIRM, the caller gets a
\* PinentryError and no other exception or return ('canceled' apart).
C18_EveryErrIsPinentryError ==
    (/\ call.op \in {"open", "set", "show_message", "ask_for_confirmation"}
     /\ Received
     /\ EndsERR
     /\ ~Declined)
    => result.outcome = "raise" /\ result.exc = "PinentryError"

\* C19: every operation of src/pynentry.py raises on a response that ends
\* with an ERR line, except ask_for_confirmation on 'canceled'.
C19_EveryErrRaises ==
    (impl = "pynentry" /\ Received /\ EndsERR /\ ~Declined)
    => result.outcome = "raise"

====
